---- MODULE Spec2Model ----
(***************************************************************************)
(* Model of find-track-by-color: Finder::find (src/src/find.rs), the       *)
(* scan / match / metadata / sort pipeline, FindColors::get_colors and     *)
(* the colour distance color_diff.                                         *)
(*                                                                         *)
(* Number encodings                                                        *)
(*   - a colour Rgb<u8> is a tuple <<r, g, b>> of integers in 0..U8Max;    *)
(*   - a distance (f64, the value of color_diff) is a record [sq, ulp]:    *)
(*     sq is the exact integer x^2 * 3 * U8Max^2 of the real distance x,   *)
(*     i.e. the sum of the squared channel differences counted in 1/U8Max  *)
(*     units (x = 1.0 is sq = DistMax); ulp is the rounding of the f64     *)
(*     arithmetic: how many units in the last place the f64 computed lies  *)
(*     above (below, if negative) the f64 nearest to x.  The f64 of two    *)
(*     colours of different sq are ordered as their sq (their gap is far   *)
(*     above the rounding); those of equal sq are ordered by ulp.  The     *)
(*     model does not compute ulp: f64::powf has unspecified precision, so *)
(*     where the arithmetic is not exact the rounding of a call is a       *)
(*     choice, within MaxUlp, made before color_diff is called and kept in *)
(*     fp_round, one value per pair of colours;                            *)
(*   - a threshold t (f64) is held in units of 1/ThresholdDen;             *)
(*   - a coverage (f32 fraction) is held in percent.                       *)
(***************************************************************************)
EXTENDS Integers, Sequences, FiniteSets

VARIABLES
    \* ---- Finder::find -------------------------------------------------
    directory,      \* [readable, entries]: what read_dir yields (entries after .flatten())
    limit,          \* Finder.limit
    threshold,      \* Finder.threshold, in 1/ThresholdDen
    target_color,   \* Finder.target_color
    finder,         \* Finder.finder: [runs, k, seed] (FindColors)
    lib_panics,     \* whether the clustering library panics on an empty clustering
    pc,             \* position in find: "start", "spawn", "join", "match", "fetch", "done", "err", "idle"
    tasks,          \* the JoinHandles collected so far, in spawn order: "running" or a result
    completion,     \* indices of the scan tasks in the order they completed, until joined
    pb,             \* the progress bar: [pos, len]
    candidates,     \* the (path, colors) pairs left after the two flattens
    requests,       \* the metadata futures, in creation order: [tag, arg]
    rcompletion,    \* indices of the metadata requests in the order they completed
                    \* (kept to the end of the run)
    output,         \* the lines printed, in order
    \* ---- FindColors::get_colors (stepwise) ----------------------------
    gc_finder,      \* the FindColors the call runs on
    gc_img,         \* the image
    gc_i,           \* the loop variable i
    gc_result,      \* the local `result`
    gc_seeds,       \* the seeds get_kmeans was called with, in call order
    gc_pc,          \* "idle", "loop", "done"
    gc_colors,      \* the returned vector
    \* ---- color_diff (pure) ---------------------------------------------
    cd_a, cd_b,     \* the two colours
    cd_t,           \* a threshold, in 1/ThresholdDen
    cd_out,         \* the value returned
    cd_pc,          \* "call", "ret", "idle"
    \* ---- f64 arithmetic -------------------------------------------------
    fp_round        \* the rounding of color_diff, by pair of colours <<a, b>>

vars == <<directory, limit, threshold, target_color, finder, lib_panics, pc,
          tasks, completion, pb, candidates, requests, rcompletion, output,
          gc_finder, gc_img, gc_i, gc_result, gc_seeds, gc_pc, gc_colors,
          cd_a, cd_b, cd_t, cd_out, cd_pc, fp_round>>

findVars == <<directory, limit, threshold, target_color, finder, lib_panics, pc,
              tasks, completion, pb, candidates, requests, rcompletion, output>>
gcVars == <<gc_finder, gc_img, gc_i, gc_result, gc_seeds, gc_pc, gc_colors>>
cdVars == <<cd_a, cd_b, cd_t, cd_out, cd_pc>>

----------------------------------------------------------------------------
(* Bounds of the model *)

MaxEntries == 3
MaxLimit == 3
MaxRuns == 3
MaxSeed == 1
MaxScore == 2
ThresholdDen == 10
KValid == 3
MaxUlp == 2

(* Program constants *)

U8Max == 255
MinCoveragePct == 10

Min(a, b) == IF a <= b THEN a ELSE b

----------------------------------------------------------------------------
(* Colours and the distance *)

Red == <<U8Max, 0, 0>>
Blue == <<0, 0, U8Max>>
Black == <<0, 0, 0>>
White == <<U8Max, U8Max, U8Max>>

\* a colour at the real distance 0.2 of Red: 83^2 + 17^2 + 25^2 = 0.04 * DistMax
DarkRed == <<172, 17, 25>>

\* the value 1.0 of the metric: (1^2 + 1^2 + 1^2) / 3, as sq of the distance encoding
DistMax == 3 * U8Max * U8Max

\* diff(a, b) = a/255 - b/255, counted in 1/U8Max
diff(a, b) == a - b

\* the f64 arithmetic of color_diff is exact up to the final quotient when every
\* channel difference is 0 or +-1.0: the squares are 0 or 1, their sum n is an
\* integer, and every such pair computes the same sqrt(n) / sqrt(3)
ExactPair(a, b) == \A ch \in 1..3 : diff(a[ch], b[ch]) \in {0, U8Max, -U8Max}

\* sqrt(n) / sqrt(3) in f64 against the f64 nearest to the real sqrt(n/3), in
\* ulps: 0.0 and 1.0 are exact, 0.5773502691896258 and 0.8164965809277261 are
\* one above
ExactRounding(a, b) ==
    LET n == Cardinality({ch \in 1..3 : diff(a[ch], b[ch]) # 0})
    IN  IF n \in {1, 2} THEN 1 ELSE 0

\* the rounding of the f64 computed for (a, b): its distance, in ulps, from the
\* f64 nearest to the real value
RoundingOf(a, b) == IF ExactPair(a, b) THEN ExactRounding(a, b) ELSE fp_round[<<a, b>>]

\* faulty variant: normalised by sqrt(2) instead of sqrt(3)
color_diff_norm2(a, b) ==
    LET d_r == diff(a[1], b[1])
        d_g == diff(a[2], b[2])
        d_b == diff(a[3], b[3])
    IN  [sq |-> (3 * (d_r * d_r + d_g * d_g + d_b * d_b)) \div 2,
         ulp |-> RoundingOf(a, b)]

\* color_diff: sqrt(d_r^2 + d_g^2 + d_b^2) / sqrt(3), then abs, in f64
color_diff(a, b) ==
    LET d_r == diff(a[1], b[1])
        d_g == diff(a[2], b[2])
        d_b == diff(a[3], b[3])
    IN  [sq |-> d_r * d_r + d_g * d_g + d_b * d_b, ulp |-> RoundingOf(a, b)]

\* the roundings the calls color_diff(target, c), c in colors, may have: up to
\* MaxUlp ulps to either side of the nearest f64 where the arithmetic is not
\* exact (the f64 results of the colours drawn below, Files and Channels, lie
\* within two)
Roundings(target, colors) ==
    [ {<<target, c>> : c \in {x \in colors : ~ExactPair(target, x)}}
        -> (-MaxUlp)..MaxUlp ]

\* no call of color_diff was made
NoRounding == [p \in {} |-> 0]

\* the order of f64 distances as an integer key (partial_cmp; no NaN arises)
DistKey(d) == d.sq * (2 * MaxUlp + 1) + d.ulp + MaxUlp

\* `*diff < self.threshold` in f64, t in 1/ThresholdDen.  The threshold is the
\* f64 nearest to t/Den: a distance whose real value is t/Den is below it iff
\* its f64 was rounded down
below_threshold(d, t) ==
    /\ t > 0
    /\ \/ d.sq * ThresholdDen * ThresholdDen < t * t * DistMax
       \/ /\ d.sq * ThresholdDen * ThresholdDen = t * t * DistMax
          /\ d.ulp < 0

----------------------------------------------------------------------------
(* Sequences *)

RECURSIVE Flatten(_)
\* Iterator::flatten / flat_map over a sequence of 0-or-1 element sequences
Flatten(ss) == IF ss = <<>> THEN <<>> ELSE Head(ss) \o Flatten(Tail(ss))

\* x inserted into s (sorted by non-increasing key) behind every element whose
\* key is >= x.key: the step of a stable sort under the comparator b.cmp(a)
InsertDesc(s, x) ==
    LET n == Cardinality({i \in 1..Len(s) : s[i].key >= x.key})
    IN  SubSeq(s, 1, n) \o <<x>> \o SubSeq(s, n + 1, Len(s))

\* x inserted before the elements of equal key: ties come out reversed
InsertDescTiesReversed(s, x) ==
    LET n == Cardinality({i \in 1..Len(s) : s[i].key > x.key})
    IN  SubSeq(s, 1, n) \o <<x>> \o SubSeq(s, n + 1, Len(s))

RECURSIVE SortDescFrom(_, _)
\* slice::sort_by with the comparator |a, b| b.partial_cmp(a): stable, by
\* non-increasing key; acc holds the sorted prefix
SortDescFrom(acc, s) ==
    IF s = <<>> THEN acc ELSE SortDescFrom(InsertDesc(acc, Head(s)), Tail(s))

RECURSIVE SortDescTiesReversedFrom(_, _)
SortDescTiesReversedFrom(acc, s) ==
    IF s = <<>> THEN acc
    ELSE SortDescTiesReversedFrom(InsertDescTiesReversed(acc, Head(s)), Tail(s))

----------------------------------------------------------------------------
(* FindColors::get_colors *)

\* Kmeans::new(): no centroids, score f32::MAX (above every score of a run)
EmptyKmeans == [score |-> MaxScore + 1, centroids |-> <<>>]

\* get_kmeans(k, max_iter, coverage, verbose, &lab, seed) followed by
\* Lab::sort_indexed_colors and the conversion to Rgb<u8>: the clustering of an
\* image is a function of the image and the seed; an image carries its
\* clusterings, [score, centroids], centroids being <<[color, per], ...>> in
\* the order sort_indexed_colors gives them.  k = 0 leaves no centroid.
get_kmeans(k, img, seed) ==
    IF k = 0 THEN [score |-> 0, centroids |-> <<>>]
    ELSE img.attempts[(seed % Len(img.attempts)) + 1]

\* faulty variant: `<=` for `<`, a later run of equal score replaces the earlier
kmeans_step_le(f, img, i, result) ==
    LET run_result == get_kmeans(f.k, img, f.seed + i)
    IN  IF run_result.score <= result.score THEN run_result ELSE result

\* one iteration of `for i in 0..self.runs`
kmeans_step(f, img, i, result) ==
    LET run_result == get_kmeans(f.k, img, f.seed + i)
    IN  IF run_result.score < result.score THEN run_result ELSE result

RECURSIVE kmeans_loop(_, _, _, _)
\* the loop from iteration i on
kmeans_loop(f, img, i, result) ==
    IF i >= f.runs THEN result
    ELSE kmeans_loop(f, img, i + 1, kmeans_step(f, img, i, result))

\* colors.sort_by(|(_, a), (_, b)| b.partial_cmp(&a)): by descending coverage
sort_colors(cs) ==
    LET keyed == [i \in 1..Len(cs) |-> [key |-> cs[i].per, val |-> cs[i]]]
        sorted == SortDescFrom(<<>>, keyed)
    IN  [i \in 1..Len(cs) |-> sorted[i].val]

\* the vector get_colors returns for the clustering `result`
colors_of(result) == sort_colors(result.centroids)

get_colors(f, img) == colors_of(kmeans_loop(f, img, 0, EmptyKmeans))

----------------------------------------------------------------------------
(* File names and catalogue identifiers *)

\* a file name is a sequence of characters
JpgSuffix == <<".", "j", "p", "g">>

\* char::is_ascii_alphanumeric
AlphaNumeric ==
    { "0", "1", "2", "3", "4", "5", "6", "7", "8", "9", "a", "b", "c",
      "d", "e", "f", "g", "h", "i", "j", "k", "l", "m", "n", "o", "p",
      "q", "r", "s", "t", "u", "v", "w", "x", "y", "z", "A", "B", "C",
      "D", "E", "F", "G", "H", "I", "J", "K", "L", "M", "N", "O", "P",
      "Q", "R", "S", "T", "U", "V", "W", "X", "Y", "Z" }

\* str::strip_suffix: the name without the suffix, or None
strip_suffix(name, suffix) ==
    LET n == Len(name)
        m == Len(suffix)
    IN  IF n >= m /\ SubSeq(name, n - m + 1, n) = suffix
        THEN [some |-> TRUE, val |-> SubSeq(name, 1, n - m)]
        ELSE [some |-> FALSE, val |-> <<>>]

\* TrackId::from_str on a bare identifier: Ok iff every character is an ASCII
\* letter or digit
track_id_from_str(uri) == \A i \in 1..Len(uri) : uri[i] \in AlphaNumeric

\* faulty variant: the stem is not checked to be an identifier
track_id_by_image_path_unchecked(path) ==
    LET uri == strip_suffix(path, JpgSuffix)
    IN  [ok |-> uri.some, id |-> uri.val]

\* track_id_by_image_path: Ok(id) or Err
track_id_by_image_path(path) ==
    LET uri == strip_suffix(path, JpgSuffix)
    IN  IF uri.some /\ track_id_from_str(uri.val)
        THEN [ok |-> TRUE, id |-> uri.val]
        ELSE [ok |-> FALSE, id |-> <<>>]

----------------------------------------------------------------------------
(* The scan task *)

Running == [tag |-> "running", path |-> <<>>, colors |-> <<>>]

\* get_color_by_entry inside the spawned task: image::open, then get_colors.
\* "ok" is Ok(Ok((path, colors))), "err" is Ok(Err(_)) (the file does not
\* decode), "panic" is Err(JoinError) (the task panicked: in the decoder, or in
\* the clustering library where it panics on an empty clustering).
scan_task(f, entry, panics) ==
    IF entry.kind = "corrupt" THEN [tag |-> "err", path |-> <<>>, colors |-> <<>>]
    ELSE IF entry.kind = "panics" THEN [tag |-> "panic", path |-> <<>>, colors |-> <<>>]
    ELSE IF panics /\ kmeans_loop(f, entry.img, 0, EmptyKmeans).centroids = <<>>
         THEN [tag |-> "panic", path |-> <<>>, colors |-> <<>>]
    ELSE [tag |-> "ok", path |-> entry.name, colors |-> get_colors(f, entry.img)]

\* faulty variant: every directory entry is dispatched
take_all(lim, n) == n

\* .take(self.limit) over the lazily mapped entries: how many are spawned
take_count(lim, n) == Min(lim, n)

\* faulty variant: results gathered in the order the tasks completed
join_all_by_completion(handles, order) ==
    [i \in 1..Len(order) |-> handles[order[i]]]

\* futures::future::join_all: the outputs in the order of the futures given,
\* whatever the order they completed in
join_all(handles, order) == handles

\* results.into_iter().flatten().flatten(): JoinErrors and Errs are dropped
flatten_results(results) ==
    LET pick(r) == IF r.tag = "ok" THEN <<r>> ELSE <<>>
    IN  Flatten([i \in 1..Len(results) |-> pick(results[i])])

----------------------------------------------------------------------------
(* Matching *)

\* faulty variant: no coverage filter
coverage_filter_none(c) == c.per >= 0

\* .filter(|(_, per)| *per >= 0.1)
coverage_filter(c) == c.per >= MinCoveragePct

\* .find(|(diff, _)| *diff < self.threshold)
within_threshold(d, t) == below_threshold(d, t)

\* the colours of the scan results rs that color_diff is called on
ColorsIn(rs) ==
    UNION { {rs[i].colors[p].color :
                p \in {q \in 1..Len(rs[i].colors) : coverage_filter(rs[i].colors[q])}}
            : i \in 1..Len(rs) }

\* the filtered (diff, per) pairs of one image, in the order of its colours
diffs_of(colors, target) ==
    LET kept == SelectSeq(colors, coverage_filter)
    IN  [i \in 1..Len(kept) |->
            [diff |-> color_diff(target, kept[i].color), per |-> kept[i].per]]

\* faulty variant: the pair of lowest distance below the threshold
find_lowest(ds, t) ==
    LET ok == {i \in 1..Len(ds) : within_threshold(ds[i].diff, t)}
    IN  IF ok = {} THEN <<>>
        ELSE LET best == CHOOSE i \in ok :
                            \A j \in ok : /\ DistKey(ds[i].diff) <= DistKey(ds[j].diff)
                                          /\ (ds[i].diff = ds[j].diff => i <= j)
             IN  <<ds[best]>>

\* Iterator::find: the first pair below the threshold, or none
find_first(ds, t) ==
    LET ok == {i \in 1..Len(ds) : within_threshold(ds[i].diff, t)}
    IN  IF ok = {} THEN <<>>
        ELSE <<ds[CHOOSE i \in ok : \A j \in ok : i <= j]>>

\* the first flat_map closure of the match chain
match_image(r, target, t) ==
    LET m == find_first(diffs_of(r.colors, target), t)
    IN  IF m = <<>> THEN <<>>
        ELSE <<[path |-> r.path, diff |-> m[1].diff, per |-> m[1].per]>>

\* the second flat_map closure: the track id of the path, or nothing
with_track_id(m) ==
    LET r == track_id_by_image_path(m.path)
    IN  IF r.ok THEN <<[id |-> r.id, path |-> m.path, diff |-> m.diff, per |-> m.per]>>
        ELSE <<>>

\* the futures of the metadata stage, in order, for the scan results
make_requests(results, target, t) ==
    LET matched == Flatten([i \in 1..Len(results) |-> match_image(results[i], target, t)])
        ided == Flatten([i \in 1..Len(matched) |-> with_track_id(matched[i])])
    IN  [i \in 1..Len(ided) |-> [tag |-> "running", arg |-> ided[i]]]

\* spotify.track(&track_id): the catalogue answers for the identifiers it knows
track_lookup(dir, id) ==
    \E i \in 1..Len(dir.entries) :
        /\ dir.entries[i].lookup
        /\ dir.entries[i].name = id \o JpgSuffix

\* faulty variant: ties of distance come out in reverse order
sort_tracks_ties_reversed(ts) ==
    LET keyed == [i \in 1..Len(ts) |-> [key |-> DistKey(ts[i].diff), val |-> ts[i]]]
        sorted == SortDescTiesReversedFrom(<<>>, keyed)
    IN  [i \in 1..Len(ts) |-> sorted[i].val]

\* tracks.sort_by(|.. a ..|, |.. b ..| b.partial_cmp(a)) on the distance
sort_tracks(ts) ==
    LET keyed == [i \in 1..Len(ts) |-> [key |-> DistKey(ts[i].diff), val |-> ts[i]]]
        sorted == SortDescFrom(<<>>, keyed)
    IN  [i \in 1..Len(ts) |-> sorted[i].val]

\* results.into_iter().flatten(): the failed lookups are dropped
flatten_tracks(results) ==
    LET pick(r) == IF r.tag = "ok" THEN <<r.arg>> ELSE <<>>
    IN  Flatten([i \in 1..Len(results) |-> pick(results[i])])

----------------------------------------------------------------------------
(* Inputs of Finder::find *)

\* an image whose clustering is the same under every seed
Img(cs) == [attempts |-> <<[score |-> 0, centroids |-> cs]>>]

C(color, per) == [color |-> color, per |-> per]

File(name, kind, cs, lookup) ==
    [name |-> name, kind |-> kind, img |-> Img(cs), lookup |-> lookup]

\* the files a directory may hold; centroids in the order of the library
\* (increasing luminosity), coverage in percent
Files ==
    { File(<<"a">> \o JpgSuffix, "image", <<C(Red, 100)>>, TRUE),
      File(<<"b">> \o JpgSuffix, "image", <<C(Blue, 60), C(Red, 40)>>, TRUE),
      File(<<"c">> \o JpgSuffix, "image", <<C(DarkRed, 95), C(Red, 5)>>, TRUE),
      File(<<"d">> \o JpgSuffix, "corrupt", <<>>, TRUE),
      File(<<"e">> \o JpgSuffix, "panics", <<>>, TRUE),
      File(<<"f", ".", "p", "n", "g">>, "image", <<C(Red, 100)>>, TRUE),
      File(<<"g", "-">> \o JpgSuffix, "image", <<C(Red, 100)>>, TRUE),
      File(<<"h">> \o JpgSuffix, "image", <<C(Black, 30), C(Red, 70)>>, FALSE) }

\* directory listings: up to MaxEntries distinct files, in any enumeration order
Listings ==
    UNION { {s \in [1..n -> Files] : \A i, j \in 1..n : s[i] = s[j] => i = j}
            : n \in 0..MaxEntries }

Thresholds == {2, 9}

\* FindColors as built by the caller: no field is validated
Configs ==
    { [runs |-> MaxRuns, k |-> KValid, seed |-> 0],
      [runs |-> 0, k |-> KValid, seed |-> 0],
      [runs |-> MaxRuns, k |-> 0, seed |-> 0] }

ValidConfig(f) == f.runs >= 1 /\ f.k >= 1


GcIdle ==
    /\ gc_finder = [runs |-> 0, k |-> 0, seed |-> 0]
    /\ gc_img = Img(<<>>)
    /\ gc_i = 0
    /\ gc_result = EmptyKmeans
    /\ gc_seeds = <<>>
    /\ gc_pc = "idle"
    /\ gc_colors = <<>>

CdIdle ==
    /\ cd_a = Black
    /\ cd_b = Black
    /\ cd_t = 0
    /\ cd_out = [diff |-> [sq |-> 0, ulp |-> 0], matched |-> <<>>]
    /\ cd_pc = "idle"

FindIdle ==
    /\ directory = [readable |-> FALSE, entries |-> <<>>]
    /\ limit = 0
    /\ threshold = 0
    /\ target_color = Black
    /\ finder = [runs |-> 0, k |-> 0, seed |-> 0]
    /\ lib_panics = FALSE
    /\ pc = "idle"
    /\ tasks = <<>>
    /\ completion = <<>>
    /\ pb = [pos |-> 0, len |-> 0]
    /\ candidates = <<>>
    /\ requests = <<>>
    /\ rcompletion = <<>>
    /\ output = <<>>

Init ==
    /\ directory \in {[readable |-> FALSE, entries |-> <<>>]}
                     \cup {[readable |-> TRUE, entries |-> s] : s \in Listings}
    /\ limit \in 0..MaxLimit
    /\ threshold \in Thresholds
    /\ target_color = Red
    /\ finder \in Configs
    /\ lib_panics \in IF ValidConfig(finder) THEN {FALSE} ELSE BOOLEAN
    /\ fp_round = NoRounding
    /\ pc = "start"
    /\ tasks = <<>>
    /\ completion = <<>>
    /\ pb = [pos |-> 0, len |-> 0]
    /\ candidates = <<>>
    /\ requests = <<>>
    /\ rcompletion = <<>>
    /\ output = <<>>
    /\ GcIdle
    /\ CdIdle

----------------------------------------------------------------------------
(* Finder::find *)

\* std::fs::read_dir(&self.directory)?
ReadDir ==
    /\ pc = "start"
    /\ pc' = IF directory.readable THEN "spawn" ELSE "err"
    /\ UNCHANGED <<directory, limit, threshold, target_color, finder, lib_panics,
                   tasks, completion, pb, candidates, requests, rcompletion, output>>

\* collect() pulls one more entry through map and take: tokio::spawn
Spawn ==
    /\ pc = "spawn"
    /\ Len(tasks) < take_count(limit, Len(directory.entries))
    /\ tasks' = Append(tasks, Running)
    /\ UNCHANGED <<directory, limit, threshold, target_color, finder, lib_panics,
                   pc, completion, pb, candidates, requests, rcompletion, output>>

\* collect() is over: pb.set_length(tasks.len())
SetLength ==
    /\ pc = "spawn"
    /\ Len(tasks) >= take_count(limit, Len(directory.entries))
    /\ pb' = [pb EXCEPT !.len = Len(tasks)]
    /\ pc' = "join"
    /\ UNCHANGED <<directory, limit, threshold, target_color, finder, lib_panics,
                   tasks, completion, candidates, requests, rcompletion, output>>

\* the spawned task of entry i runs to its end
TaskRun(i) ==
    /\ pc \in {"spawn", "join"}
    /\ i \in 1..Len(tasks)
    /\ tasks[i].tag = "running"
    /\ LET r == scan_task(finder, directory.entries[i], lib_panics)
       IN  /\ tasks' = [tasks EXCEPT ![i] = r]
           /\ pb' = IF r.tag = "panic" THEN pb ELSE [pb EXCEPT !.pos = @ + 1]
    /\ completion' = Append(completion, i)
    /\ UNCHANGED <<directory, limit, threshold, target_color, finder, lib_panics,
                   pc, candidates, requests, rcompletion, output>>

\* join_all(tasks).await takes the handles and returns, the results are
\* flattened; the roundings of the calls of color_diff the match chain is about
\* to make are settled
JoinScan ==
    /\ pc = "join"
    /\ \A i \in 1..Len(tasks) : tasks[i].tag # "running"
    /\ candidates' = flatten_results(join_all(tasks, completion))
    /\ completion' = <<>>
    /\ fp_round' \in Roundings(target_color, ColorsIn(candidates'))
    /\ pc' = "match"
    /\ UNCHANGED <<directory, limit, threshold, target_color, finder, lib_panics,
                   tasks, pb, requests, rcompletion, output>>

\* the match chain: coverage filter, color_diff, find, track id, the metadata
\* futures
Match ==
    /\ pc = "match"
    /\ requests' = make_requests(candidates, target_color, threshold)
    /\ pc' = "fetch"
    /\ UNCHANGED <<directory, limit, threshold, target_color, finder, lib_panics,
                   tasks, completion, pb, candidates, rcompletion, output>>

\* the metadata request j is answered
Fetch(j) ==
    /\ pc = "fetch"
    /\ j \in 1..Len(requests)
    /\ requests[j].tag = "running"
    /\ requests' = [requests EXCEPT ![j].tag =
                        IF track_lookup(directory, requests[j].arg.id) THEN "ok" ELSE "err"]
    /\ rcompletion' = Append(rcompletion, j)
    /\ UNCHANGED <<directory, limit, threshold, target_color, finder, lib_panics,
                   pc, tasks, completion, pb, candidates, output>>

\* join_all(tasks).await returns; flatten, sort, print, Ok(())
Finish ==
    /\ pc = "fetch"
    /\ \A j \in 1..Len(requests) : requests[j].tag # "running"
    /\ output' = sort_tracks(flatten_tracks(join_all(requests, rcompletion)))
    /\ pc' = "done"
    /\ UNCHANGED <<directory, limit, threshold, target_color, finder, lib_panics,
                   tasks, completion, pb, candidates, requests, rcompletion>>

Next ==
    \/ ReadDir /\ UNCHANGED gcVars /\ UNCHANGED cdVars /\ UNCHANGED fp_round
    \/ Spawn /\ UNCHANGED gcVars /\ UNCHANGED cdVars /\ UNCHANGED fp_round
    \/ SetLength /\ UNCHANGED gcVars /\ UNCHANGED cdVars /\ UNCHANGED fp_round
    \/ \E i \in 1..MaxEntries + 1 : TaskRun(i) /\ UNCHANGED gcVars /\ UNCHANGED cdVars /\ UNCHANGED fp_round
    \/ JoinScan /\ UNCHANGED gcVars /\ UNCHANGED cdVars
    \/ Match /\ UNCHANGED gcVars /\ UNCHANGED cdVars /\ UNCHANGED fp_round
    \/ \E j \in 1..MaxEntries + 1 : Fetch(j) /\ UNCHANGED gcVars /\ UNCHANGED cdVars /\ UNCHANGED fp_round
    \/ Finish /\ UNCHANGED gcVars /\ UNCHANGED cdVars /\ UNCHANGED fp_round

Spec == Init /\ [][Next]_vars

----------------------------------------------------------------------------
(* FindColors::get_colors, one loop iteration at a time *)

\* the centroids the clustering under the p-th seed finds: a different
\* clustering for every seed, so that the run kept can be told from the others
CentroidsAt(p) == <<C(Black, 10 * p), C(White, 100 - 10 * p)>>

\* images by the scores of their clusterings under the seeds 0..MaxSeed+MaxRuns-1
GcImages ==
    { [attempts |-> [p \in 1..(MaxSeed + MaxRuns) |->
                        [score |-> sc[p], centroids |-> CentroidsAt(p)]]]
      : sc \in [1..(MaxSeed + MaxRuns) -> 0..MaxScore] }

GcInit ==
    /\ gc_finder \in [runs : 0..MaxRuns, k : {0, KValid}, seed : 0..MaxSeed]
    /\ gc_img \in GcImages
    /\ gc_i = 0
    /\ gc_result = EmptyKmeans
    /\ gc_seeds = <<>>
    /\ gc_pc = "loop"
    /\ gc_colors = <<>>
    /\ FindIdle
    /\ CdIdle
    /\ fp_round = NoRounding

\* the body of `for i in 0..self.runs`
GcIterate ==
    /\ gc_pc = "loop"
    /\ gc_i < gc_finder.runs
    /\ gc_seeds' = Append(gc_seeds, gc_finder.seed + gc_i)
    /\ gc_result' = kmeans_step(gc_finder, gc_img, gc_i, gc_result)
    /\ gc_i' = gc_i + 1
    /\ UNCHANGED <<gc_finder, gc_img, gc_pc, gc_colors>>

\* the loop is over: sort_indexed_colors, the conversion, the sort, return
GcReturn ==
    /\ gc_pc = "loop"
    /\ gc_i >= gc_finder.runs
    /\ gc_colors' = colors_of(gc_result)
    /\ gc_pc' = "done"
    /\ UNCHANGED <<gc_finder, gc_img, gc_i, gc_result, gc_seeds>>

GcNext ==
    \/ GcIterate /\ UNCHANGED findVars /\ UNCHANGED cdVars /\ UNCHANGED fp_round
    \/ GcReturn /\ UNCHANGED findVars /\ UNCHANGED cdVars /\ UNCHANGED fp_round

SpecColors == GcInit /\ [][GcNext]_vars

----------------------------------------------------------------------------
(* color_diff and the threshold test, applied to a pair of colours *)

Channels == {0, 51, 128, U8Max}

CdInit ==
    /\ cd_a \in Channels \X Channels \X Channels
    /\ cd_b \in Channels \X Channels \X Channels
    /\ cd_t \in 0..(ThresholdDen + 1)
    /\ cd_out = [diff |-> [sq |-> 0, ulp |-> 0], matched |-> <<>>]
    /\ cd_pc = "call"
    /\ fp_round \in Roundings(cd_a, {cd_b})
    /\ FindIdle
    /\ GcIdle

\* color_diff(a, b), and the match chain on an image whose one colour is b
CdCall ==
    /\ cd_pc = "call"
    /\ cd_out' = [diff |-> color_diff(cd_a, cd_b),
                  matched |-> match_image([tag |-> "ok", path |-> <<"a">> \o JpgSuffix,
                                           colors |-> <<C(cd_b, 100)>>],
                                          cd_a, cd_t)]
    /\ cd_pc' = "ret"
    /\ UNCHANGED <<cd_a, cd_b, cd_t>>

CdNext == CdCall /\ UNCHANGED findVars /\ UNCHANGED gcVars /\ UNCHANGED fp_round

SpecDiff == CdInit /\ [][CdNext]_vars

----------------------------------------------------------------------------
(* Properties of Finder::find *)

Entries == directory.entries

\* how many entries the scan may dispatch
ScanBound == IF limit <= Len(Entries) THEN limit ELSE Len(Entries)

\* the position of a path in the directory enumeration
EntryIndex(path) == CHOOSE i \in 1..Len(Entries) : Entries[i].name = path

\* the representative colours of the image of entry i, by descending coverage
ColorsOfEntry(i) == get_colors(finder, Entries[i].img)

Dist(c) == color_diff(target_color, c.color)

\* the f64 distance d is strictly below the threshold t/ThresholdDen
StrictlyBelow(d, t) ==
    /\ t > 0
    /\ \/ d.sq * ThresholdDen * ThresholdDen < t * t * DistMax
       \/ d.sq * ThresholdDen * ThresholdDen = t * t * DistMax /\ d.ulp < 0

\* the f64 distance d is less than e / not more than e
Less(d, e) == d.sq < e.sq \/ (d.sq = e.sq /\ d.ulp < e.ulp)
LessEq(d, e) == d.sq < e.sq \/ (d.sq = e.sq /\ d.ulp <= e.ulp)

\* colour c passes the coverage filter and lies below the threshold
Qualifies(c) ==
    /\ c.per >= MinCoveragePct
    /\ StrictlyBelow(Dist(c), threshold)

\* the name is <identifier>.jpg
NameIsId(name) ==
    /\ Len(name) >= 4
    /\ SubSeq(name, Len(name) - 3, Len(name)) = <<".", "j", "p", "g">>
    /\ \A p \in 1..(Len(name) - 4) : name[p] \in AlphaNumeric

\* every stage succeeds for entry i and its image matches
Succeeds(i) ==
    /\ i \in 1..ScanBound
    /\ Entries[i].kind = "image"
    /\ NameIsId(Entries[i].name)
    /\ Entries[i].lookup
    /\ LET cs == ColorsOfEntry(i)
       IN  \E p \in 1..Len(cs) : Qualifies(cs[p])

OutputPaths == {output[p].path : p \in 1..Len(output)}

\* C1: the records printed by a run that returns Ok are in order of
\* non-decreasing distance (closest match first)
C1_OutputAscending ==
    pc = "done" =>
        \A p, q \in 1..Len(output) : p < q => LessEq(output[p].diff, output[q].diff)

\* C2: every record printed has a distance strictly below the threshold and a
\* coverage not below the minimum, both those of one colour of its image
C2_EmittedQualify ==
    \A p \in 1..Len(output) :
        LET r == output[p]
            cs == ColorsOfEntry(EntryIndex(r.path))
        IN  /\ r.per >= MinCoveragePct
            /\ StrictlyBelow(r.diff, threshold)
            /\ \E c \in 1..Len(cs) : cs[c].per = r.per /\ Dist(cs[c]) = r.diff

\* a run printed a record, and dropped an image whose one colour below the
\* threshold covers less than the minimum
C2_Witness ==
    /\ pc = "done"
    /\ Len(output) >= 1
    /\ \E i \in 1..ScanBound :
        /\ Entries[i].kind = "image"
        /\ NameIsId(Entries[i].name)
        /\ Entries[i].lookup
        /\ Entries[i].name \notin OutputPaths
        /\ \E c \in 1..Len(ColorsOfEntry(i)) :
            /\ ColorsOfEntry(i)[c].per < MinCoveragePct
            /\ below_threshold(Dist(ColorsOfEntry(i)[c]), threshold)

\* C3 as stated: no colour of the image that passes the coverage filter is
\* strictly closer to the target than the one reported
C3_ReportedIsLowest ==
    pc = "done" =>
        \A p \in 1..Len(output) :
            LET cs == ColorsOfEntry(EntryIndex(output[p].path))
            IN  \A c \in 1..Len(cs) :
                    cs[c].per >= MinCoveragePct => LessEq(output[p].diff, Dist(cs[c]))

\* C3 amended: the pair reported is that of the first colour, in order of
\* descending coverage, that passes the coverage filter and lies below the
\* threshold; no qualifying colour of the image has a larger coverage
C3_ReportedIsFirstQualifying ==
    pc = "done" =>
        \A p \in 1..Len(output) :
            LET cs == ColorsOfEntry(EntryIndex(output[p].path))
            IN  /\ \E c \in 1..Len(cs) :
                    /\ cs[c].per = output[p].per
                    /\ Dist(cs[c]) = output[p].diff
                    /\ Qualifies(cs[c])
                    /\ \A b \in 1..(c - 1) : ~Qualifies(cs[b])
                /\ \A c \in 1..Len(cs) : Qualifies(cs[c]) => cs[c].per <= output[p].per

\* a record was printed for an image two of whose colours qualify, the one
\* reported not being the closest
C3_Witness ==
    /\ pc = "done"
    /\ \E p \in 1..Len(output) :
        LET cs == ColorsOfEntry(EntryIndex(output[p].path))
        IN  \E c \in 1..Len(cs) : Qualifies(cs[c]) /\ Less(Dist(cs[c]), output[p].diff)

\* C4: a readable directory never makes find fail, whatever fails per item,
\* and the records printed are exactly those of the entries for which every
\* stage succeeded, one each
C4_ItemFailuresDropped ==
    /\ directory.readable => pc # "err"
    /\ pc = "done" =>
        /\ OutputPaths = {Entries[i].name : i \in {j \in 1..Len(Entries) : Succeeds(j)}}
        /\ \A p, q \in 1..Len(output) : output[p].path = output[q].path => p = q

\* a run with a file that does not decode or whose task panicked, a matching
\* image without an identifier or without metadata, and a record printed
C4_Witness ==
    /\ pc = "done"
    /\ Len(output) >= 1
    /\ \E i \in 1..ScanBound : Entries[i].kind \in {"corrupt", "panics"}
    /\ \E i \in 1..ScanBound :
        /\ Entries[i].kind = "image"
        /\ ~(NameIsId(Entries[i].name) /\ Entries[i].lookup)

\* C5: tasks are spawned for the first min(limit, entries) entries and no
\* other, and no more candidates than that reach the matching
C5_ScanBounded ==
    /\ Len(tasks) <= ScanBound
    /\ \A i \in 1..Len(tasks) :
        tasks[i].tag = "ok" => i <= Len(Entries) /\ tasks[i].path = Entries[i].name
    /\ pc \in {"join", "match", "fetch", "done"} => Len(tasks) = ScanBound /\ pb.len = ScanBound
    /\ pc \in {"match", "fetch", "done"} =>
        /\ Len(candidates) <= ScanBound
        /\ \A c \in 1..Len(candidates) :
            \E i \in 1..ScanBound : Entries[i].name = candidates[c].path

\* the limit cut the scan short: every entry is a decodable image, more of
\* them than the limit, and exactly `limit` candidates were matched
C5_Witness ==
    /\ pc = "done"
    /\ limit >= 2
    /\ limit < Len(Entries)
    /\ \A i \in 1..Len(Entries) : Entries[i].kind = "image"
    /\ Len(candidates) = limit

\* the answered metadata futures of the scan results rs
Answered(rs) ==
    [j \in 1..Len(rs) |->
        [rs[j] EXCEPT !.tag = IF track_lookup(directory, rs[j].arg.id) THEN "ok" ELSE "err"]]

\* the candidates of the scan run entry by entry, in enumeration order
SequentialCandidates ==
    flatten_results([i \in 1..ScanBound |-> scan_task(finder, Entries[i], lib_panics)])

\* the output of the pipeline run entry by entry, in enumeration order
SequentialOutput ==
    LET reqs == make_requests(SequentialCandidates, target_color, threshold)
    IN  sort_tracks(flatten_tracks(Answered(reqs)))

\* C6: the candidates the scan hands on, and the records printed and their
\* order, are those of the run that takes the entries one by one, whatever
\* order the tasks and requests completed in
C6_OrderIndependent ==
    /\ pc \in {"match", "fetch", "done"} => candidates = SequentialCandidates
    /\ pc = "done" => output = SequentialOutput

\* the metadata requests of two or more candidates completed out of order, and
\* two of the records printed are at the same distance
C6_Witness ==
    /\ pc = "done"
    /\ Len(candidates) >= 2
    /\ Len(rcompletion) >= 2
    /\ rcompletion[1] > rcompletion[2]
    /\ \E p, q \in 1..Len(output) : p < q /\ output[p].diff = output[q].diff

\* C8: a run whose configuration has k = 0 or runs = 0 never completes
\* successfully
C8_InvalidConfigIsFatal == ~ValidConfig(finder) => pc # "done"

\* C9 as stated: records at the same distance are in order of descending
\* coverage
C9_TiesByDescendingCoverage ==
    pc = "done" =>
        \A p, q \in 1..Len(output) :
            (p < q /\ output[p].diff = output[q].diff) => output[p].per >= output[q].per

\* C9 amended: records at the same distance are in the order the directory
\* enumerated their files
C9_TiesKeepEnumerationOrder ==
    pc = "done" =>
        \A p, q \in 1..Len(output) :
            (p < q /\ output[p].diff = output[q].diff) =>
                EntryIndex(output[p].path) < EntryIndex(output[q].path)

\* two records at the same distance, the one of smaller coverage first
C9_Witness ==
    /\ pc = "done"
    /\ \E p, q \in 1..Len(output) :
        /\ p < q
        /\ output[p].diff = output[q].diff
        /\ output[p].per < output[q].per

----------------------------------------------------------------------------
(* Properties of color_diff *)

\* C7 as stated: red and blue are at the maximal distance 1.0, so a blue image
\* is excluded for every threshold below 1.0
C7_RedBlueIsMax ==
    (cd_pc = "ret" /\ cd_a = Red /\ cd_b = Blue) =>
        /\ cd_out.diff = [sq |-> DistMax, ulp |-> 0]
        /\ cd_t < ThresholdDen => cd_out.matched = <<>>

\* C7 amended: the distance x of red and blue has x^2 = 2/3 (the f64
\* 0.8164965809277261), below the maximum 1.0, which only colours differing by
\* 255 in all three channels reach; the
\* blue image is excluded exactly for the thresholds t with t^2 <= 2/3
C7_RedBlueIsSqrtTwoThirds ==
    cd_pc = "ret" =>
        /\ (cd_a = Red /\ cd_b = Blue) =>
            /\ 3 * cd_out.diff.sq = 2 * DistMax
            /\ cd_out.diff.ulp = 1
            /\ Less(cd_out.diff, [sq |-> DistMax, ulp |-> 0])
            /\ cd_out.matched = <<>> <=>
                    3 * cd_t * cd_t <= 2 * ThresholdDen * ThresholdDen
        /\ cd_out.diff = [sq |-> DistMax, ulp |-> 0] <=>
            \A ch \in 1..3 : cd_a[ch] - cd_b[ch] \in {U8Max, -U8Max}

\* the blue image is kept under a threshold below 1.0
C7_Witness ==
    /\ cd_pc = "ret"
    /\ cd_a = Red
    /\ cd_b = Blue
    /\ cd_t < ThresholdDen
    /\ cd_out.matched # <<>>

----------------------------------------------------------------------------
(* Properties of get_colors *)

\* the clustering of attempt i
Attempt(i) == get_kmeans(gc_finder.k, gc_img, gc_finder.seed + i)

\* C10: get_kmeans is called `runs` times, the i-th call with seed + i; the
\* result kept is the attempt of lowest score, the earliest of them, and with
\* runs >= 1 it is not the empty placeholder
C10_BestRunKept ==
    gc_pc = "done" =>
        /\ Len(gc_seeds) = gc_finder.runs
        /\ \A i \in 0..(gc_finder.runs - 1) : gc_seeds[i + 1] = gc_finder.seed + i
        /\ gc_finder.runs >= 1 =>
            /\ gc_result # EmptyKmeans
            /\ \E i \in 0..(gc_finder.runs - 1) :
                /\ gc_result = Attempt(i)
                /\ \A j \in 0..(gc_finder.runs - 1) : Attempt(i).score <= Attempt(j).score
                /\ \A j \in 0..(i - 1) : Attempt(j).score > Attempt(i).score

\* three attempts, the first beaten by the second, the third equal to the second
C10_Witness ==
    /\ gc_pc = "done"
    /\ gc_finder.runs >= 3
    /\ gc_finder.k > 0
    /\ Attempt(0).score > Attempt(1).score
    /\ Attempt(2).score = Attempt(1).score
    /\ gc_result = Attempt(1)
    /\ gc_result # Attempt(2)

====
